---- MODULE Spec2Model ----
(***************************************************************************)
(* Model of gbm_simulator.py: the path generator generate_gbm, the global  *)
(* scale computation, the frame renderer plot_gbm, the joblib fan-out of   *)
(* the renders and the index-ordered assembly of the animation.            *)
(*                                                                         *)
(* Arithmetic.  The program works on reals through exp and log.  The model *)
(* keeps the arithmetic exact by working on the rationals that are powers  *)
(* of two: Exp(x) is 2^x and Log is its inverse, i.e. the base e of        *)
(* np.exp / np.log is replaced by 2 throughout.  Quantities are per step:  *)
(* mu stands for mu*dt, r for r*dt and Z[s][p] for sqrt(dt)*Z[s,p], so     *)
(* that the exponent (mu - r*sigma^2)*dt + sigma*sqrt(dt)*Z is the integer *)
(* (mu - r*sigma^2) + sigma*Z.  Floating-point rounding, overflow and      *)
(* underflow are not modelled.                                             *)
(***************************************************************************)
EXTENDS Integers, Sequences, FiniteSets, TLC

\* ---------------------------------------------------------------- bounds
MaxN == 4          \* largest ensemble size explored
MaxT == 2          \* largest horizon explored
MaxCells == 4      \* largest number N * T of noise draws explored
MaxCpu == 8        \* largest os.cpu_count() explored
MaxIndex == 1002   \* largest frame index whose file name is explored

\* ------------------------------------------------------- exact rationals
RECURSIVE GCD(_, _)
GCD(a, b) == IF b = 0 THEN a ELSE GCD(b, a % b)

Abs(x) == IF x < 0 THEN -x ELSE x

\* the rational n/d (d > 0) in lowest terms
Rat(n, d) ==
    LET g == GCD(Abs(n), d)
    IN  IF g = 0 THEN [n |-> 0, d |-> 1] ELSE [n |-> n \div g, d |-> d \div g]

RMul(a, b) == Rat(a.n * b.n, a.d * b.d)
\* a / b for b > 0
RDiv(a, b) == Rat(a.n * b.d, a.d * b.n)
RLeq(a, b) == a.n * b.d <= b.n * a.d
RLess(a, b) == a.n * b.d < b.n * a.d
FromInt(i) == [n |-> i, d |-> 1]

RECURSIVE Pow2(_)
Pow2(k) == IF k = 0 THEN 1 ELSE 2 * Pow2(k - 1)

\* np.exp on an integer exponent
Exp(x) == IF x >= 0 THEN Rat(Pow2(x), 1) ELSE Rat(1, Pow2(-x))

\* largest magnitude of a cumulative exponent: |mu - r*sigma^2 + sigma*Z|
\* is at most 3 per step
LogRange == 3 * (MaxT + 1)

\* np.log on a positive rational that is a power of the base
Log(q) == CHOOSE k \in -LogRange..LogRange : Exp(k) = q

\* int(np.sqrt(n)) for n >= 0
Isqrt(n) == CHOOSE k \in 0..n : k * k <= n /\ (k + 1) * (k + 1) > n

\* ------------------------------------------------ sequences and matrices
SetMax(S) == CHOOSE x \in S : \A y \in S : y <= x
SetMin(S) == CHOOSE x \in S : \A y \in S : x <= y
Range(s) == {s[i] : i \in 1..Len(s)}
RMax(S) == CHOOSE x \in S : \A y \in S : RLeq(y, x)

RECURSIVE Flatten(_)
\* ndarray.flatten(): the rows one after the other
Flatten(m) == IF m = <<>> THEN <<>> ELSE Head(m) \o Flatten(Tail(m))


\* ------------------------------------------------------------ parameters
\* the values the simulation parameters are drawn from; N and T include
\* the non-positive values the generator is documented to reject
Sizes == -1..MaxN
Horizons == -1..MaxT
Drifts == {0, 1}
Volatilities == {0, 1}
Rates == {0, 1}
NoiseValues == {-1, 1}
S0 == 100

VARIABLES
    N, T, mu, sigma, r,   \* the simulation parameters of the run
    pc,                   \* position of the main script
    Z,                    \* the noise matrix drawn by generate_gbm
    paths,                \* the path matrix, <<>> before it is returned
    scale,                \* min_log_return, max_log_return, max_density
    max_jobs,             \* worker count given to Parallel, 0 before chosen
    next_t,               \* next frame index Parallel dispatches
    running,              \* frame indices being rendered by a worker
    done_order,           \* frame indices in the order their renders ended
    failed_renders,       \* frame indices whose render raised
    dir,                  \* files of output_dir: records [name, image]
    read_t,               \* loop variable of the assembly loop
    images,               \* the list the assembly loop builds
    gif,                  \* frames of gbm_evolution.gif, <<>> if not written
    compressed,           \* whether pygifsicle optimised the gif
    err,                  \* the exception that ended the run, kind "" if none
    names                 \* files written by renderer invocations (SpecNames)

vars == <<N, T, mu, sigma, r, pc, Z, paths, scale, max_jobs, next_t, running,
          done_order, failed_renders, dir, read_t, images, gif, compressed,
          err, names>>

NoError == [kind |-> "", site |-> "", t |-> -1]
NoScale == [min_log_return |-> 0, max_log_return |-> 0,
            max_density |-> FromInt(0)]

\* --------------------------------------------------------- generate_gbm
\* np.exp((mu - r * sigma ** 2) * dt + sigma * np.sqrt(dt) * Z)
daily_returns(n, h, m, sg, rt, z) ==
    [s \in 1..h |-> [p \in 1..n |->
        Exp((m - rt * sg * sg) + sg * z[s][p])]]

RECURSIVE ColProd(_, _, _)
ColProd(dr, s, p) ==
    IF s = 0 THEN FromInt(1) ELSE RMul(ColProd(dr, s - 1, p), dr[s][p])

\* faulty variant: the factors are not accumulated
NoCumprod(dr, n) == [s \in 1..Len(dr) |-> [p \in 1..n |-> dr[s][p]]]

\* ndarray.cumprod(axis=0): running product down each column
cumprod(dr, n) == [s \in 1..Len(dr) |-> [p \in 1..n |-> ColProd(dr, s, p)]]

\* the matrix generate_gbm returns for h >= 1 and n >= 0
generate_gbm(n, h, m, sg, s0, rt, z) ==
    LET cum == cumprod(daily_returns(n, h, m, sg, rt, z), n)
    IN  <<[p \in 1..n |-> RMul(FromInt(1), FromInt(s0))]>>
        \o [s \in 1..h |-> [p \in 1..n |-> RMul(FromInt(s0), cum[s][p])]]

\* the exception generate_gbm raises, kind "" if it returns
GenerateError(n, h) ==
    IF h = 0 THEN [kind |-> "ZeroDivisionError", site |-> "generate_gbm", t |-> -1]
    ELSE IF h < 0 \/ n < 0
         THEN [kind |-> "ValueError", site |-> "generate_gbm", t |-> -1]
         ELSE NoError

\* ----------------------------------------------------------- histogram
\* np.histogram(vals, bins, density=True) on a non-empty sequence of
\* integers: the densities of the bins, first bin first
Histogram(vals, bins) ==
    LET mn == SetMin(Range(vals))
        mx == SetMax(Range(vals))
        flat == mn = mx
        \* an empty range is widened to [mn - 0.5, mx + 0.5]
        width == IF flat THEN 1 ELSE mx - mn
        BinOf(x) == IF flat THEN bins \div 2
                    ELSE IF x = mx THEN bins - 1
                    ELSE ((x - mn) * bins) \div width
        Count(b) == Cardinality({i \in 1..Len(vals) : BinOf(vals[i]) = b})
    IN  [b \in 1..bins |-> Rat(Count(b - 1) * bins, Len(vals) * width)]

\* ------------------------------------------------- global scale (main)
\* np.log(paths[1:, :] / S0)
LogReturns(pm, s0) ==
    [t \in 1..(Len(pm) - 1) |-> [p \in 1..Len(pm[1]) |->
        Log(RDiv(pm[t + 1][p], FromInt(s0)))]]

\* min_log_return, max_log_return and max_density of a non-empty matrix
GlobalScale(pm, s0) ==
    LET flat == Flatten(LogReturns(pm, s0))
        density == Histogram(flat, Isqrt(Len(flat)))
    IN  [min_log_return |-> SetMin(Range(flat)),
         max_log_return |-> SetMax(Range(flat)),
         max_density |-> RMax(Range(density))]

\* --------------------------------------------------------------- plot_gbm
PadWidth == 3

RECURSIVE Digits(_)
\* the decimal digits of t >= 0 as character codes, most significant first
Digits(t) == IF t < 10 THEN <<48 + t>> ELSE Append(Digits(t \div 10), 48 + (t % 10))

\* faulty variant: the index is not padded
NoPad(ds, w) == ds

RECURSIVE ZeroPad(_, _)
ZeroPad(ds, w) == IF Len(ds) >= w THEN ds ELSE ZeroPad(<<48>> \o ds, w)

\* f'gbm_{t:03d}.png' as character codes
FileName(t) ==
    <<103, 98, 109, 95>> \o ZeroPad(Digits(t), PadWidth) \o <<46, 112, 110, 103>>

\* faulty variant: the file is named by the number of renders that ended before it
SavePathByCompletion(t) == FileName(Len(done_order))

\* os.path.join(output_dir, f'gbm_{t:03d}.png') of plt.savefig
SavePath(t) == FileName(t)

\* paths.max()
MatrixMax(pm) == RMax(Range(Flatten(pm)))

\* faulty variant: the price axis follows the rows drawn so far
PriceLimitSoFar(pm, t) == MatrixMax(SubSeq(pm, 1, t + 1))

\* upper end of the price axis: ax1.set_ylim(0, paths.max())
PriceLimit(pm, t) == MatrixMax(pm)

\* faulty variant: the histogram is drawn for every index
DrawsHistogramAlways(t) == t >= 0

\* whether the histogram branch is taken
DrawsHistogram(t) == t > 0

\* np.log(paths[t, :] / paths[0, :])
TotalLogReturns(pm, t) ==
    [p \in 1..Len(pm[1]) |-> Log(RDiv(pm[t + 1][p], pm[1][p]))]

\* the picture plot_gbm draws and the file it saves it to
plot_gbm(pm, t, h, min_log_return, max_log_return, max_density) ==
    LET n == Len(pm[1])
        tlr == IF DrawsHistogram(t) THEN TotalLogReturns(pm, t) ELSE <<>>
    IN  [name |-> SavePath(t),
         image |->
           [t |-> t,
            lines |-> SubSeq(pm, 1, t + 1),
            xlim1 |-> h,
            ylim1 |-> PriceLimit(pm, t),
            has_hist |-> DrawsHistogram(t),
            log_returns |-> tlr,
            bars |-> IF DrawsHistogram(t) THEN Histogram(tlr, Isqrt(Len(tlr)))
                     ELSE <<>>,
            ylim2 |-> SetMax({Abs(min_log_return), Abs(max_log_return)}),
            xlim2 |-> RMul(max_density, Rat(11, 10))]]

\* ------------------------------------------------------------- the run
\* the state when the main script starts: parameters set, output_dir made
Init ==
    /\ N \in Sizes /\ T \in Horizons /\ N * T <= MaxCells
    /\ mu \in Drifts /\ sigma \in Volatilities /\ r \in Rates
    /\ pc = "generate"
    /\ Z = <<>> /\ paths = <<>> /\ scale = NoScale
    /\ max_jobs = 0 /\ next_t = 0 /\ running = {} /\ done_order = <<>>
    /\ failed_renders = {}
    /\ dir = {} /\ read_t = 0 /\ images = <<>> /\ gif = <<>>
    /\ compressed = FALSE
    /\ err = NoError /\ names = <<>>

\* the exception raised and the run ended
Raise(e) == pc' = "failed" /\ err' = e

\* paths = generate_gbm(N, T, mu, sigma, S0, r)
Generate ==
    /\ pc = "generate"
    /\ IF GenerateError(N, T).kind # ""
       THEN /\ Raise(GenerateError(N, T))
            /\ UNCHANGED <<Z, paths>>
       ELSE /\ Z' \in [1..T -> [1..N -> NoiseValues]]
            /\ paths' = generate_gbm(N, T, mu, sigma, S0, r, Z')
            /\ pc' = "scale"
            /\ err' = err
    /\ UNCHANGED <<N, T, mu, sigma, r, scale, max_jobs, next_t, running,
                   done_order, failed_renders, dir, read_t, images, gif,
                   compressed, names>>

\* log_returns ... max_density = density.max(); min() of an empty array raises
ComputeScale ==
    /\ pc = "scale"
    /\ IF Len(paths[1]) = 0
       THEN /\ Raise([kind |-> "ValueError", site |-> "main", t |-> -1])
            /\ scale' = scale
       ELSE /\ scale' = GlobalScale(paths, S0)
            /\ pc' = "jobs"
            /\ err' = err
    /\ UNCHANGED <<N, T, mu, sigma, r, Z, paths, max_jobs, next_t, running,
                   done_order, failed_renders, dir, read_t, images, gif,
                   compressed, names>>

\* max_jobs = max(1, os.cpu_count() // 4)
MaxJobs(cpu) == SetMax({1, cpu \div 4})

ChooseJobs ==
    /\ pc = "jobs"
    /\ \E cpu \in 1..MaxCpu : max_jobs' = MaxJobs(cpu)
    /\ pc' = "render"
    /\ UNCHANGED <<N, T, mu, sigma, r, Z, paths, scale, next_t, running,
                   done_order, failed_renders, dir, read_t, images, gif,
                   compressed, err, names>>

\* Parallel hands the next delayed(plot_gbm)(..., t, ...) to a free worker
Dispatch ==
    /\ pc = "render"
    /\ next_t <= T
    /\ Cardinality(running) < max_jobs
    /\ running' = running \cup {next_t}
    /\ next_t' = next_t + 1
    /\ UNCHANGED <<N, T, mu, sigma, r, pc, Z, paths, scale, max_jobs,
                   done_order, failed_renders, dir, read_t, images, gif,
                   compressed, err, names>>

\* output_dir after plt.savefig wrote file f (a file of that name is replaced)
SaveFig(d, f) == {g \in d : g.name # f.name} \cup {f}

\* a worker's plot_gbm call returns; a call in flight when another one raised
\* may still end
RenderDone(t) ==
    /\ pc \in {"render", "failed"}
    /\ t \in running
    /\ dir' = SaveFig(dir, plot_gbm(paths, t, T, scale.min_log_return,
                                    scale.max_log_return, scale.max_density))
    /\ running' = running \ {t}
    /\ done_order' = Append(done_order, t)
    /\ UNCHANGED <<N, T, mu, sigma, r, pc, Z, paths, scale, max_jobs, next_t,
                   failed_renders, read_t, images, gif, compressed, err,
                   names>>

\* faulty variant: the exception of a worker is dropped and the run goes on
OnRenderErrorSwallowed(t) == UNCHANGED <<pc, err>>

\* what the main script does when a worker's plot_gbm call raises: Parallel
\* re-raises in the caller
OnRenderError(t) == Raise([kind |-> "RenderError", site |-> "plot_gbm", t |-> t])

RenderFail(t) ==
    /\ pc = "render"
    /\ t \in running
    /\ running' = running \ {t}
    /\ failed_renders' = failed_renders \cup {t}
    /\ OnRenderError(t)
    /\ UNCHANGED <<N, T, mu, sigma, r, Z, paths, scale, max_jobs, next_t,
                   done_order, dir, read_t, images, gif, compressed, names>>

\* Parallel(...)(...) returns once every call has returned
ParallelReturn ==
    /\ pc = "render"
    /\ next_t = T + 1
    /\ running = {}
    /\ pc' = "assemble"
    /\ UNCHANGED <<N, T, mu, sigma, r, Z, paths, scale, max_jobs, next_t,
                   running, done_order, failed_renders, dir, read_t, images,
                   gif, compressed, err, names>>

\* faulty variant: the loop takes the frames in the order their renders ended
AssembleInCompletionOrder(i) == done_order[i + 1]

\* the frame index the assembly loop reads at its i-th iteration (i from 0)
AssembleIndex(i) == i

\* os.path.join(output_dir, f'gbm_{t:03d}.png') of the assembly loop
ReadPath(t) == FileName(t)

\* faulty variant: the loop skips a file that is not there
OnMissingFrameSkip(t) == read_t' = read_t + 1 /\ UNCHANGED <<pc, err, images>>

\* what the loop does when the file of index t is not in output_dir:
\* imageio.imread raises
OnMissingFrame(t) ==
    /\ Raise([kind |-> "FileNotFoundError", site |-> "imread", t |-> t])
    /\ UNCHANGED <<read_t, images>>

\* images.append(imageio.imread(os.path.join(output_dir, f'gbm_{t:03d}.png')))
ReadFrame ==
    /\ pc = "assemble"
    /\ read_t <= T
    /\ LET t == AssembleIndex(read_t)
           found == {f \in dir : f.name = ReadPath(t)}
       IN  IF found # {}
           THEN /\ images' = Append(images, (CHOOSE f \in found : TRUE).image)
                /\ read_t' = read_t + 1
                /\ UNCHANGED <<pc, err>>
           ELSE OnMissingFrame(t)
    /\ UNCHANGED <<N, T, mu, sigma, r, Z, paths, scale, max_jobs, next_t,
                   running, done_order, failed_renders, dir, gif, compressed,
                   names>>

\* imageio.mimsave('gbm_evolution.gif', images, ...)
Mimsave ==
    /\ pc = "assemble"
    /\ read_t = T + 1
    /\ gif' = images
    /\ pc' = "cleanup"
    /\ UNCHANGED <<N, T, mu, sigma, r, Z, paths, scale, max_jobs, next_t,
                   running, done_order, failed_renders, dir, read_t, images,
                   compressed, err, names>>

\* shutil.rmtree(output_dir)
Cleanup ==
    /\ pc = "cleanup"
    /\ dir' = {}
    /\ pc' = "compress"
    /\ UNCHANGED <<N, T, mu, sigma, r, Z, paths, scale, max_jobs, next_t,
                   running, done_order, failed_renders, read_t, images, gif,
                   compressed, err, names>>

\* try: optimize('gbm_evolution.gif') except Exception: print(...)
Compress ==
    /\ pc = "compress"
    /\ compressed' \in BOOLEAN
    /\ pc' = "done"
    /\ UNCHANGED <<N, T, mu, sigma, r, Z, paths, scale, max_jobs, next_t,
                   running, done_order, failed_renders, dir, read_t, images,
                   gif, err, names>>

Next ==
    \/ Generate
    \/ ComputeScale
    \/ ChooseJobs
    \/ Dispatch
    \/ \E t \in 0..MaxT : RenderDone(t)
    \/ \E t \in 0..MaxT : RenderFail(t)
    \/ ParallelReturn
    \/ ReadFrame
    \/ Mimsave
    \/ Cleanup
    \/ Compress

Spec == Init /\ [][Next]_vars

\* ------------------------------------------- the assembly step on its own
\* every frame of a run, as the renders of 0..h leave them in output_dir
RenderedFrames(pm, h, sc) ==
    {plot_gbm(pm, t, h, sc.min_log_return, sc.max_log_return, sc.max_density) :
        t \in 0..h}

\* the state when Parallel has returned, for every content of output_dir
\* that keeps only some of the frame files (the directory is shared with
\* the rest of the system, which may have removed files)
InitAsm ==
    /\ N \in 1..MaxN /\ T \in 1..MaxT /\ N * T <= MaxCells
    /\ mu = 0 /\ sigma = 1 /\ r = 0
    /\ pc = "assemble"
    /\ Z = [s \in 1..T |-> [p \in 1..N |-> 1]]
    /\ paths = generate_gbm(N, T, mu, sigma, S0, r, Z)
    /\ scale = GlobalScale(paths, S0)
    /\ \E cpu \in 1..MaxCpu : max_jobs = MaxJobs(cpu)
    /\ next_t = T + 1 /\ running = {}
    /\ done_order = [i \in 1..T + 1 |-> i - 1]
    /\ failed_renders = {}
    /\ dir \in SUBSET RenderedFrames(paths, T, scale)
    /\ read_t = 0 /\ images = <<>> /\ gif = <<>> /\ compressed = FALSE
    /\ err = NoError /\ names = <<>>

NextAsm ==
    \/ ReadFrame
    \/ Mimsave
    \/ Cleanup
    \/ Compress

SpecAsm == InitAsm /\ [][NextAsm]_vars

\* ------------------------------------------------ the file names on their own
RECURSIVE LexLess(_, _)
\* a sorts strictly before b, character by character
LexLess(a, b) ==
    IF b = <<>> THEN FALSE
    ELSE IF a = <<>> THEN TRUE
    ELSE IF Head(a) # Head(b) THEN Head(a) < Head(b)
    ELSE LexLess(Tail(a), Tail(b))

InitNames ==
    /\ N = 1 /\ T = 1 /\ mu = 0 /\ sigma = 0 /\ r = 0
    /\ pc = "names"
    /\ Z = <<>> /\ paths = <<>> /\ scale = NoScale
    /\ max_jobs = 0 /\ next_t = 0 /\ running = {} /\ done_order = <<>>
    /\ failed_renders = {}
    /\ dir = {} /\ read_t = 0 /\ images = <<>> /\ gif = <<>>
    /\ compressed = FALSE
    /\ err = NoError /\ names = <<>>

\* a renderer invocation for index t saves its file; the second invocation
\* is for a larger index than the first
SaveName ==
    /\ pc = "names"
    /\ Len(names) < 2
    /\ \E t \in 0..MaxIndex :
        /\ names # <<>> => names[1].t < t
        /\ names' = Append(names, [t |-> t, name |-> SavePath(t)])
    /\ UNCHANGED <<N, T, mu, sigma, r, pc, Z, paths, scale, max_jobs, next_t,
                   running, done_order, failed_renders, dir, read_t, images,
                   gif, compressed, err>>

NextNames == SaveName

SpecNames == InitNames /\ [][NextNames]_vars

\* ================================================================ claims
Frames == {f.image : f \in dir}
Present(t) == \E f \in dir : f.name = FileName(t)
Sorted(q) == \A i \in 1..Len(q) : q[i].t = i - 1

\* C1: whatever the order in which the renders end, the frames read for and
\* written to the animation are those of t = 0, 1, ..., T in increasing t,
\* each exactly once.
C1_FrameOrder ==
    /\ Len(images) = read_t
    /\ Sorted(images)
    /\ gif # <<>> => Len(gif) = T + 1 /\ Sorted(gif)

\* an animation written although the first render to end was not that of 0
C1_Witness ==
    /\ gif # <<>> /\ max_jobs >= 2 /\ done_order[1] # 0 /\ Len(gif) = 3

\* C2: when the render of a frame raises, the run fails with that error,
\* the assembly loop never starts and no animation is written; a run that
\* gets past Parallel has rendered every one of the T + 1 frames.
C2_RenderFailureFails ==
    /\ failed_renders # {} =>
        /\ pc = "failed"
        /\ err.kind = "RenderError" /\ err.t \in failed_renders
        /\ read_t = 0 /\ images = <<>> /\ gif = <<>>
    /\ pc \in {"assemble", "cleanup", "compress", "done"} =>
        /\ failed_renders = {}
        /\ Range(done_order) = 0..T /\ Len(done_order) = T + 1

\* the render of frame 1 raised after another frame had been saved
C2_Witness ==
    /\ failed_renders = {1} /\ dir # {} /\ pc = "failed" /\ running = {}

\* C3: when the assembly loop finds the file of an index absent it raises
\* the file-not-found error of imread for that index and no animation is
\* written; it never skips an index.
C3_MissingFrame ==
    /\ pc = "failed" =>
        /\ err.kind = "FileNotFoundError" /\ err.site = "imread"
        /\ err.t = read_t /\ ~Present(err.t)
        /\ gif = <<>>
    /\ Len(images) = read_t /\ Sorted(images)
    /\ pc = "assemble" => \A t \in 0..read_t - 1 : Present(t)
    /\ pc = "assemble" /\ read_t <= T /\ ~Present(read_t) => ~ENABLED Mimsave
    /\ pc = "cleanup" => \A t \in 0..T : Present(t)
    /\ gif # <<>> => Len(gif) = T + 1 /\ Sorted(gif)

\* frame 1 of 0..2 is absent: the loop read frame 0 and raised at index 1
C3_Witness ==
    /\ T = 2 /\ pc = "failed" /\ err.t = 1 /\ Len(images) = 1
    /\ Present(0) /\ Present(2)

\* C4 (as claimed): with T <= 0 or N <= 0 generate_gbm itself raises, no
\* matrix is returned and no frame is rendered.
C4_GeneratorRejects ==
    (T <= 0 \/ N <= 0) /\ pc # "generate" =>
        /\ pc = "failed" /\ err.site = "generate_gbm"
        /\ paths = <<>>
        /\ dir = {} /\ done_order = <<>> /\ running = {}

\* C5 (as claimed): no bar of the histogram of a frame t >= 1 is higher
\* than the density bound 1.1 * max_density of the density axis.
C5_DensityBound ==
    \A im \in Frames : im.t >= 1 =>
        \A b \in 1..Len(im.bars) : RLeq(im.bars[b], im.xlim2)

\* the largest |log(paths[t, p] / paths[0, p])| over the whole matrix
FullLogBound ==
    SetMax({Abs(Log(RDiv(paths[t + 1][p], paths[1][p]))) :
                t \in 1..T, p \in 1..N})

\* C6: the price limit and the log-return limit are the same in every
\* frame, are those of the complete matrix, and bound the frame's data.
C6_FixedScale ==
    \A im \in Frames :
        /\ im.ylim1 = RMax({paths[t][p] : t \in 1..T + 1, p \in 1..N})
        /\ im.ylim2 = FullLogBound
        /\ \A other \in Frames :
            other.ylim1 = im.ylim1 /\ other.ylim2 = im.ylim2
        /\ \A i \in 1..Len(im.lines) : \A p \in 1..N :
            RLeq(im.lines[i][p], im.ylim1)
        /\ \A p \in 1..Len(im.log_returns) :
            Abs(im.log_returns[p]) <= im.ylim2

\* frame 0 and frame 2 are saved and the prices rose after row 0
C6_Witness ==
    /\ \E a, b \in Frames : a.t = 0 /\ b.t = 2
    /\ T = 2 /\ \E p \in 1..N : RLess(paths[1][p], paths[3][p])
    /\ scale.min_log_return < 0

\* C7: for N > 0 and T > 0 generate_gbm returns T + 1 rows of N strictly
\* positive prices, row 0 is S0 and row t is row t - 1 times the factors of
\* step t - 1.
C7_PathMatrix ==
    N > 0 /\ T > 0 /\ pc # "generate" =>
        /\ err.site # "generate_gbm"
        /\ Len(paths) = T + 1
        /\ \A t \in 1..T + 1 : DOMAIN paths[t] = 1..N
        /\ \A p \in 1..N : paths[1][p] = FromInt(S0)
        /\ \A t \in 1..T : \A p \in 1..N :
            paths[t + 1][p] =
                RMul(paths[t][p], Exp((mu - r * sigma * sigma) + sigma * Z[t][p]))
        /\ \A t \in 1..T + 1 : \A p \in 1..N :
            paths[t][p].n > 0 /\ paths[t][p].d > 0

\* a 3 x 2 matrix whose first path moved at both steps
C7_Witness ==
    /\ pc = "scale" /\ N = 2 /\ T = 2
    /\ paths[2][1] # paths[1][1] /\ paths[3][1] # paths[2][1]
    /\ paths[3][2] = paths[1][2]

RECURSIVE Pow10(_)
Pow10(k) == IF k = 0 THEN 1 ELSE 10 * Pow10(k - 1)

RECURSIVE SequentialDir(_)
\* output_dir after one worker rendered 0..k one after the other
SequentialDir(k) ==
    IF k < 0 THEN {}
    ELSE SaveFig(SequentialDir(k - 1),
                 plot_gbm(paths, k, T, scale.min_log_return,
                          scale.max_log_return, scale.max_density))

SequentialImages ==
    [i \in 1..T + 1 |->
        plot_gbm(paths, i - 1, T, scale.min_log_return,
                 scale.max_log_return, scale.max_density).image]

\* C9: the worker count is at least 1, and for every worker count and
\* interleaving the files in output_dir after Parallel and the frames of
\* the animation are those of one worker rendering 0..T in turn.
C9_WorkerIndependence ==
    /\ pc \in {"render", "assemble", "cleanup", "compress", "done"} =>
        max_jobs >= 1
    /\ pc = "assemble" => dir = SequentialDir(T)
    /\ gif # <<>> => gif = SequentialImages

\* two workers, and the last render to end was not that of T
C9_Witness ==
    /\ pc = "assemble" /\ max_jobs = 2 /\ T = 2
    /\ done_order[Len(done_order)] # T

\* C10: the render of t = 0 is not held back by anything but a worker
\* running it and leaves its file; its frame shows row 0 only and no
\* histogram, under the same log-return and density limits as the other
\* frames; a frame has a histogram exactly when its t > 0.
C10_FirstFrame ==
    /\ 0 \in running => pc \in {"render", "failed"}
    /\ 0 \in Range(done_order) /\ pc \in {"render", "failed", "assemble"}
         => Present(0)
    /\ pc = "assemble" => Present(0)
    /\ \A im \in Frames :
        /\ im.has_hist <=> im.t > 0
        /\ im.has_hist <=> im.bars # <<>>
        /\ im.has_hist <=> im.log_returns # <<>>
        /\ im.t = 0 =>
            /\ im.lines = <<paths[1]>>
            /\ im.ylim2 = SetMax({Abs(scale.min_log_return),
                                  Abs(scale.max_log_return)})
            /\ im.xlim2 = RMul(scale.max_density, Rat(11, 10))
            /\ \A other \in Frames :
                other.ylim2 = im.ylim2 /\ other.xlim2 = im.xlim2

\* frame 0 is saved next to a frame with a histogram
C10_Witness ==
    \E a, b \in Frames : a.t = 0 /\ ~a.has_hist /\ b.has_hist /\ b.bars # <<>>

====
